---- MODULE Spec2Model ----
(***************************************************************************)
(* Notification service: the WebSocket ConnectionManager (src/main.py),    *)
(* the websocket_endpoint lifecycle handler and the REST producers of      *)
(* src/routers/notifications.py.                                           *)
(*                                                                         *)
(* Scheduling is one asyncio event loop: a coroutine runs without          *)
(* interruption from one await that suspends to the next.  Every action    *)
(* below is one such uninterrupted stretch of a handler.                   *)
(***************************************************************************)
EXTENDS Integers, Sequences, FiniteSets, TLC

\* ---- bounds ----
NumConns == 3        \* WebSocket objects that may ever connect
NumReqs == 1         \* REST requests in flight at the same time
MaxNotif == 2        \* rows the Notifications table may hold
MaxHung == 1         \* transports whose send never completes
MaxOps == 4          \* registry operations in a RegistrySpec run
MaxCalls == 2        \* broadcast calls in an OrderSpec run

Conns == 1..NumConns
Reqs == 1..NumReqs
NotifIds == 1..MaxNotif
NoConn == 0
NoId == 0
SaleIDs == {7}
Messages == {"order ready"}

\* ---- HTTP status codes of the producers ----
HTTP_201_CREATED == 201
HTTP_200_OK == 200
HTTP_404 == 404
HTTP_500 == 500
HTTP_401_UNAUTHORIZED == 401
NoStatus == 0

DbOutcomes == {"ok", "connect_error", "execute_error", "commit_error"}

VARIABLES
    active_connections,  \* ConnectionManager.active_connections : Set[WebSocket]
    ws,                  \* ws[c] : position of websocket_endpoint(c)
    hung,                \* transports on which send_json never completes
    Notifications,       \* the Notifications table, row i has NotificationID i
    call,                \* call[r] : the producer request r
    bc,                  \* bc[r] : the broadcast call made by request r
    oplog,               \* registry operations applied (RegistrySpec)
    regRaised,           \* a registry operation raised (RegistrySpec)
    scenario,            \* history: how far the latest calls follow create,
                         \* markAllRead, list
    track,               \* history: the broadcast calls issued so far
    inbox,               \* history: inbox[c], the events sent to c, as the
                         \* numbers of their broadcast calls
    mail                 \* the request served by routers/email_notifications.py

vars ==
    <<active_connections, ws, hung, Notifications, call, bc, oplog, regRaised, scenario,
      track, inbox, mail>>

\* ------------------------------------------------------------------------
\* ConnectionManager
\* ------------------------------------------------------------------------

\* a connect that accepts the handshake but does not register the socket
connect_unregistered(conns, websocket) == conns

\* set.add after a successful accept
connect(conns, websocket) == conns \cup {websocket}

\* a disconnect that leaves the socket registered
disconnect_keep(conns, websocket) ==
    [conns |-> conns, raised |-> FALSE]

\* set.remove would raise KeyError on an absent member
disconnect_remove(conns, websocket) ==
    [conns |-> conns \ {websocket}, raised |-> websocket \notin conns]

\* set.discard: an absent member is ignored
disconnect(conns, websocket) ==
    [conns |-> conns \ {websocket}, raised |-> FALSE]

\* "for connection in disconnected: self.disconnect(connection)"
RECURSIVE prune(_, _)
prune(conns, disconnected) ==
    IF disconnected = {} THEN conns
    ELSE LET c == CHOOSE x \in disconnected : TRUE
         IN prune(disconnect(conns, c).conns, disconnected \ {c})

\* len(manager.active_connections) as reported by /health
websocket_clients == Cardinality(active_connections)

\* The set iterator of "for connection in self.active_connections".
\* it_used is the size of the set when the iterator was created, pending the
\* members the iterator has still ahead of its position in the hash table.
\* CPython's setiter_iternext compares the size first and raises
\* RuntimeError("Set changed size during iteration") on a mismatch; the for
\* statement is outside the try block, so the error leaves broadcast.
setiter_next(so, it_used, pending) ==
    IF Cardinality(so) # it_used
    THEN {[kind |-> "RuntimeError", item |-> NoConn, pending |-> {}]}
    ELSE IF pending = {}
    THEN {[kind |-> "StopIteration", item |-> NoConn, pending |-> {}]}
    ELSE {[kind |-> "yield", item |-> c, pending |-> pending \ {c}] : c \in pending}

IdleBc ==
    [state |-> "none", message |-> [type |-> "none"], start |-> {},
     it_used |-> 0, pending |-> {}, cur |-> NoConn, sent |-> {},
     disconnected |-> {}, nsent |-> 0, stamp |-> 0]

IdleCall ==
    [op |-> "none", id |-> NoId, pc |-> "idle", status |-> NoStatus, log |-> <<>>,
     data |-> <<>>]

Running(r) == bc[r].state = "sending"

NoTrack == [on |-> FALSE, issued |-> 0, overlapped |-> FALSE]

\* Request r issues a broadcast call: while the history is recorded the call
\* gets the next number, and a call issued while another one is still
\* sending is noted.
issue(t, r) ==
    IF t.on
    THEN [t EXCEPT !.issued = @ + 1,
                   !.overlapped = @ \/ \E q \in Reqs \ {r} : bc[q].state = "sending"]
    ELSE t

\* a recorded history holds at most MaxCalls broadcast calls
CallBudget == track.on => track.issued < MaxCalls

\* a transport that hands the latest event to the client first
send_json_front(stream, stamp) == <<stamp>> \o stream

\* connection.send_json(message) returned: the event is in the stream to the
\* client, behind the events sent before
send_json(stream, stamp) == Append(stream, stamp)

NoScenario == [stage |-> "none", id |-> NoId, ok |-> FALSE]

\* The history of the latest calls as a client sees it, when request r is
\* served: a create whose INSERT is committed starts the sequence, a
\* markAllRead after a create that reported success continues it, a list after
\* that ends it; every other call breaks it.  ok: the store operations of the
\* calls after the create succeeded.
ScenarioAfterCall(sc, op, notif_id, stored) ==
    CASE op = "create" /\ stored ->
           [stage |-> "creating", id |-> notif_id, ok |-> TRUE]
      [] op = "markAllRead" /\ sc.stage = "created" ->
           [stage |-> "readAll", id |-> sc.id, ok |-> stored]
      [] op = "list" /\ sc.stage = "readAll" ->
           [stage |-> "listed", id |-> sc.id, ok |-> sc.ok /\ stored]
      [] OTHER -> NoScenario

\* the response of request r reaches the client
ScenarioAfterResponse(sc, c) ==
    IF c.op = "create" /\ sc.stage = "creating" /\ sc.id = c.id
    THEN IF c.status = HTTP_201_CREATED THEN [sc EXCEPT !.stage = "created"]
         ELSE NoScenario
    ELSE sc

\* A discard on the set turns the slot of every removed key into a dummy,
\* which a live iterator skips.
IterAfterDiscard(b, removed) ==
    IF b.state = "sending" THEN [b EXCEPT !.pending = @ \ removed] ELSE b

\* an iteration that may still reach sockets of the start snapshot which have
\* left the registry
IterAfterAdd_stale(b, members) ==
    IF b.state = "sending"
    THEN {[b EXCEPT !.pending = p] : p \in SUBSET (members \cup b.start)}
    ELSE {b}

\* An add on the set puts the key before or behind the position of a live
\* iterator, or triggers a table resize that rehashes every key (the layout
\* depends on object addresses): the keys ahead of the iterator are then any
\* subset of the members.
IterAfterAdd(b, members) ==
    IF b.state = "sending" THEN {[b EXCEPT !.pending = p] : p \in SUBSET members}
    ELSE {b}

\* ------------------------------------------------------------------------
\* routers/email_notifications.py: values and helpers
\* ------------------------------------------------------------------------

\* Optional[...] values
None == [some |-> FALSE]
Some(v) == [some |-> TRUE, v |-> v]

\* "not x" on an Optional[str]: None and the empty string are falsy
not_str(o) == ~o.some \/ o.v = ""

\* "not x" on an Optional[int]: None and 0 are falsy
not_int(o) == ~o.some \/ o.v = 0

\* A header value is a string, written as the sequence of its pieces; the
\* empty string is the empty sequence.
not_header(o) == ~o.some \/ o.v = <<>>

\* a prefix test that accepts the prefix anywhere in the string
startswith_anywhere(h, prefix) == \E i \in DOMAIN h : h[i] = prefix

\* str.startswith
startswith(h, prefix) == Len(h) >= 1 /\ h[1] = prefix

\* str.replace(old, ""): every occurrence is removed
replace(h, old) == SelectSeq(h, LAMBDA x : x # old)

Endpoints == {"send_order_accepted_email", "send_order_update_email"}

AuthorizationHeaders ==
    {None, Some(<<>>), Some(<<"Basic ", "t">>), Some(<<"bearer ", "t">>),
     Some(<<"Bearer">>), Some(<<"Bearer ">>), Some(<<"Bearer ", "t">>),
     Some(<<"Token ", "Bearer ", "t">>)}

CustomerEmails == {None, Some(""), Some("ann@example.com")}
CustomerIds == {None, Some(0), Some(5)}
CustomerNames == {"", "ann"}

\* what the auth service may answer to a lookup
AuthResponses ==
    {[kind |-> "200", email |-> e] : e \in {None, Some(""), Some("ann@auth.example.com")}}
       \cup {[kind |-> k, email |-> None] : k \in {"404", "TimeoutException", "Exception"}}

\* how smtplib may end inside send_email
SmtpOutcomes == {"no_credentials", "login_failed", "send_failed", "sent"}

IdleMail ==
    [pc |-> "idle", endpoint |-> "none", authorization |-> None,
     customer_email |-> None, customer_id |-> None, customer_name |-> "",
     user_email |-> None, lookups |-> <<>>, handed |-> <<>>,
     status |-> NoStatus, success |-> "none", send |-> "none"]

\* fetch_user_email up to its request to the auth service: no request without
\* a token or without an identifier; by id when user_id is truthy, else by
\* username
fetch_user_email(user_id, username, auth_token) ==
    IF auth_token = <<>> THEN [lookup |-> FALSE]
    ELSE IF not_int(user_id) /\ username = "" THEN [lookup |-> FALSE]
    ELSE IF ~not_int(user_id)
    THEN [lookup |-> TRUE, by |-> "user_id", user_id |-> user_id.v, username |-> "",
          token |-> auth_token, email |-> None]
    ELSE [lookup |-> TRUE, by |-> "username", user_id |-> 0, username |-> username,
          token |-> auth_token, email |-> None]

\* ------------------------------------------------------------------------
\* Initial state: manager = ConnectionManager(), no request, empty table
\* ------------------------------------------------------------------------
InitProgram ==
    /\ active_connections = {}
    /\ ws = [c \in Conns |-> "CONNECTING"]
    /\ hung = {}
    /\ Notifications = <<>>
    /\ call = [r \in Reqs |-> IdleCall]
    /\ bc = [r \in Reqs |-> IdleBc]
    /\ oplog = <<>>
    /\ regRaised = FALSE
    /\ scenario = NoScenario
    /\ inbox = [c \in Conns |-> <<>>]
    /\ mail = IdleMail

Init ==
    /\ InitProgram
    /\ track = NoTrack

\* the same initial state, with the history of broadcast calls recorded
OrderInit ==
    /\ InitProgram
    /\ track = [NoTrack EXCEPT !.on = TRUE]

\* ------------------------------------------------------------------------
\* websocket_endpoint
\* ------------------------------------------------------------------------

\* manager.connect: accept succeeds, the socket is registered
Accept(c) ==
    /\ ws[c] = "CONNECTING"
    /\ LET members == connect(active_connections, c)
       IN /\ active_connections' = members
          /\ bc' \in {f \in [Reqs -> UNION {IterAfterAdd(bc[r], members) : r \in Reqs}] :
                        \A r \in Reqs : f[r] \in IterAfterAdd(bc[r], members)}
    /\ ws' = [ws EXCEPT ![c] = "OPEN"]
    /\ UNCHANGED <<hung, Notifications, call, oplog, regRaised, scenario, track, inbox, mail>>

\* websocket.accept() raises: connect is outside the try, the handler ends
AcceptFail(c) ==
    /\ ws[c] = "CONNECTING"
    /\ ws' = [ws EXCEPT ![c] = "FAILED"]
    /\ UNCHANGED <<active_connections, hung, Notifications, call, bc, oplog, regRaised, scenario, track, inbox, mail>>

\* receive_text returns a client frame: it is logged at debug level and dropped
Receive(c) ==
    /\ ws[c] = "OPEN"
    /\ UNCHANGED vars

\* a handler that deregisters on WebSocketDisconnect only
except_disconnect_only(conns, websocket, reason) ==
    IF reason = "WebSocketDisconnect" THEN disconnect(conns, websocket)
    ELSE [conns |-> conns, raised |-> FALSE]

\* "except WebSocketDisconnect" and "except Exception" of the read loop: both
\* call manager.disconnect(websocket)
except_read_loop(conns, websocket, reason) ==
    IF reason = "WebSocketDisconnect" THEN disconnect(conns, websocket)
    ELSE disconnect(conns, websocket)

\* receive_text raises WebSocketDisconnect or another Exception
ReadLoopEnds(c) ==
    /\ ws[c] = "OPEN"
    /\ \E reason \in {"WebSocketDisconnect", "Exception"} :
         LET d == except_read_loop(active_connections, c, reason)
         IN /\ active_connections' = d.conns
            /\ bc' = [r \in Reqs |-> IterAfterDiscard(bc[r], {c})]
    /\ ws' = [ws EXCEPT ![c] = "CLOSED"]
    /\ UNCHANGED <<hung, Notifications, call, oplog, regRaised, scenario, track, inbox, mail>>

\* ------------------------------------------------------------------------
\* The Notifications table (SQL statements of routers/notifications.py)
\* ------------------------------------------------------------------------

\* INSERT INTO Notifications (SaleID, Message) OUTPUT INSERTED...: the identity
\* column numbers the rows, CreatedAt is the insertion time, the flags take
\* the column default 0.
insert_row(tbl, sale_id, message) ==
    [NotificationID |-> Len(tbl) + 1, SaleID |-> sale_id, Message |-> message,
     CreatedAt |-> Len(tbl) + 1, IsRead |-> FALSE, IsDone |-> FALSE]

\* UPDATE Notifications SET IsRead = 1 WHERE NotificationID = ?
update_read(tbl, notif_id) ==
    [i \in DOMAIN tbl |-> IF i = notif_id THEN [tbl[i] EXCEPT !.IsRead = TRUE] ELSE tbl[i]]

\* an UPDATE that sets IsDone only
update_done_only(tbl, notif_id) ==
    [i \in DOMAIN tbl |-> IF i = notif_id THEN [tbl[i] EXCEPT !.IsDone = TRUE] ELSE tbl[i]]

\* an UPDATE without the WHERE clause
update_done_all(tbl, notif_id) ==
    [i \in DOMAIN tbl |-> [tbl[i] EXCEPT !.IsDone = TRUE, !.IsRead = TRUE]]

\* UPDATE Notifications SET IsDone = 1, IsRead = 1 WHERE NotificationID = ?
update_done(tbl, notif_id) ==
    [i \in DOMAIN tbl |-> IF i = notif_id
                          THEN [tbl[i] EXCEPT !.IsDone = TRUE, !.IsRead = TRUE]
                          ELSE tbl[i]]

\* UPDATE Notifications SET IsRead = 1 WHERE IsRead = 0
update_read_all(tbl) ==
    [i \in DOMAIN tbl |-> IF tbl[i].IsRead = FALSE THEN [tbl[i] EXCEPT !.IsRead = TRUE] ELSE tbl[i]]

\* a rowcount that reports a row although none matched
rowcount_one(tbl, notif_id) == 1

\* cursor.rowcount of the UPDATE ... WHERE NotificationID = ?
rowcount(tbl, notif_id) == IF notif_id \in DOMAIN tbl THEN 1 ELSE 0

\* a commit that makes the pending statement durable although it reported
\* an error
commit_autocommit(tbl, pending, outcome) ==
    IF outcome \in {"ok", "commit_error"} THEN pending ELSE tbl

\* await conn.commit(): the pending statement becomes durable only if the
\* commit succeeds; the connection is closed in the finally block otherwise
commit(tbl, pending, outcome) ==
    IF outcome = "ok" THEN pending ELSE tbl

\* SELECT ... FROM Notifications WHERE IsDone = 0 ORDER BY CreatedAt DESC
RECURSIVE order_by_created_desc(_, _)
order_by_created_desc(tbl, ids) ==
    IF ids = {} THEN <<>>
    ELSE LET newest == CHOOSE i \in ids : \A j \in ids : tbl[j].CreatedAt <= tbl[i].CreatedAt
         IN <<tbl[newest]>> \o order_by_created_desc(tbl, ids \ {newest})

\* a select that forgets the WHERE clause
select_all(tbl) == order_by_created_desc(tbl, DOMAIN tbl)

select_active(tbl) ==
    order_by_created_desc(tbl, {i \in DOMAIN tbl : tbl[i].IsDone = FALSE})

\* ------------------------------------------------------------------------
\* Events
\* ------------------------------------------------------------------------
new_notification_event(notification_data) ==
    [type |-> "new_notification", payload |-> notification_data]

notification_read_event(notif_id) ==
    [type |-> "notification_read", payload |-> [NotificationID |-> notif_id]]

notification_done_event(notif_id) ==
    [type |-> "notification_done", payload |-> [NotificationID |-> notif_id]]

\* a read-all event with an empty payload key
notifications_read_all_event_payload ==
    [type |-> "notifications_read_all", payload |-> [NotificationID |-> NoId]]

notifications_read_all_event == [type |-> "notifications_read_all"]

\* ------------------------------------------------------------------------
\* Producers
\* ------------------------------------------------------------------------

\* the handler of request r ends with an HTTP status and the rows it returns
RespondData(r, op, notif_id, st, lg, data) ==
    call' = [call EXCEPT ![r] = [op |-> op, id |-> notif_id, pc |-> "done",
                                 status |-> st, log |-> lg, data |-> data]]

\* the handler of request r ends with an HTTP status and no rows
Respond(r, op, notif_id, st, lg) == RespondData(r, op, notif_id, st, lg, <<>>)

\* "except Exception" around a failed store operation
StoreError(r, op, notif_id) ==
    /\ Respond(r, op, notif_id, HTTP_500, <<"db_error">>)
    /\ UNCHANGED <<active_connections, ws, hung, Notifications, bc, oplog, regRaised, track, inbox, mail>>

\* raise HTTPException(status_code=404)
NotFound(r, op, notif_id, lg) ==
    /\ Respond(r, op, notif_id, HTTP_404, Append(lg, "not_found"))
    /\ UNCHANGED <<active_connections, ws, hung, bc, oplog, regRaised, track, inbox, mail>>

\* a broadcast that treats an empty registry as an error
broadcast_empty_raises(r, op, notif_id, message, okStatus, lg, data) ==
    /\ UNCHANGED <<active_connections, ws, hung, oplog, regRaised, inbox, mail>>
    /\ track' = issue(track, r)
    /\ IF active_connections = {}
       THEN /\ bc' = [bc EXCEPT ![r] = [IdleBc EXCEPT !.state = "raised", !.message = message]]
            /\ Respond(r, op, notif_id, HTTP_500, Append(Append(lg, "broadcast"), "exception"))
       ELSE \E n \in setiter_next(active_connections, Cardinality(active_connections),
                                  active_connections) :
              /\ bc' = [bc EXCEPT ![r] =
                          [state |-> "sending", message |-> message,
                           start |-> active_connections,
                           it_used |-> Cardinality(active_connections),
                           pending |-> n.pending, cur |-> n.item, sent |-> {},
                           disconnected |-> {}, nsent |-> 1,
                           stamp |-> issue(track, r).issued]]
              /\ call' = [call EXCEPT ![r] = [op |-> op, id |-> notif_id, pc |-> "sending",
                                              status |-> okStatus,
                                              log |-> Append(lg, "broadcast"),
                                              data |-> data]]

\* manager.broadcast(message), up to its first suspension in send_json
broadcast(r, op, notif_id, message, okStatus, lg, data) ==
    /\ UNCHANGED <<active_connections, ws, hung, oplog, regRaised, inbox, mail>>
    /\ track' = issue(track, r)
    /\ IF active_connections = {}
       THEN /\ bc' = [bc EXCEPT ![r] = [IdleBc EXCEPT !.state = "returned", !.message = message]]
            /\ RespondData(r, op, notif_id, okStatus, Append(lg, "broadcast"), data)
       ELSE \E n \in setiter_next(active_connections, Cardinality(active_connections),
                                  active_connections) :
              /\ bc' = [bc EXCEPT ![r] =
                          [state |-> "sending", message |-> message,
                           start |-> active_connections,
                           it_used |-> Cardinality(active_connections),
                           pending |-> n.pending, cur |-> n.item, sent |-> {},
                           disconnected |-> {}, nsent |-> 1,
                           stamp |-> issue(track, r).issued]]
              /\ call' = [call EXCEPT ![r] = [op |-> op, id |-> notif_id, pc |-> "sending",
                                              status |-> okStatus,
                                              log |-> Append(lg, "broadcast"),
                                              data |-> data]]

create_notification(r, sale_id, message) ==
    /\ call[r].pc = "idle"
    /\ CallBudget
    /\ Len(Notifications) < MaxNotif
    /\ \E outcome \in DbOutcomes :
         IF outcome \in {"connect_error", "execute_error"}
         THEN StoreError(r, "create", NoId)
         ELSE LET new_notif_row == insert_row(Notifications, sale_id, message)
                  pending == Append(Notifications, new_notif_row)
              IN /\ Notifications' = commit(Notifications, pending, outcome)
                 /\ IF outcome # "ok"
                    THEN /\ Respond(r, "create", NoId, HTTP_500, <<"db_error">>)
                         /\ UNCHANGED <<active_connections, ws, hung, bc, oplog, regRaised, track, inbox, mail>>
                    ELSE broadcast(r, "create", new_notif_row.NotificationID,
                                   new_notification_event(new_notif_row),
                                   HTTP_201_CREATED, <<"commit">>, <<new_notif_row>>)
    /\ scenario' = ScenarioAfterCall(scenario, "create", call'[r].id,
                                     call'[r].log # <<"db_error">>)

mark_as_read(r, notif_id) ==
    /\ call[r].pc = "idle"
    /\ CallBudget
    /\ \E outcome \in DbOutcomes :
         IF outcome \in {"connect_error", "execute_error"}
         THEN StoreError(r, "markRead", notif_id)
         ELSE LET existing == notif_id \in DOMAIN Notifications
              IN IF ~existing
                 THEN /\ Notifications' = Notifications
                      /\ NotFound(r, "markRead", notif_id, <<>>)
                 ELSE /\ Notifications' =
                            commit(Notifications, update_read(Notifications, notif_id), outcome)
                      /\ IF outcome # "ok"
                         THEN /\ Respond(r, "markRead", notif_id, HTTP_500, <<"db_error">>)
                              /\ UNCHANGED <<active_connections, ws, hung, bc, oplog, regRaised, track, inbox, mail>>
                         ELSE broadcast(r, "markRead", notif_id,
                                        notification_read_event(notif_id),
                                        HTTP_200_OK, <<"commit">>, <<>>)
    /\ scenario' = ScenarioAfterCall(scenario, "markRead", notif_id,
                                     call'[r].log # <<"db_error">>)

mark_as_done(r, notif_id) ==
    /\ call[r].pc = "idle"
    /\ CallBudget
    /\ \E outcome \in DbOutcomes :
         IF outcome \in {"connect_error", "execute_error"}
         THEN StoreError(r, "markDone", notif_id)
         ELSE /\ Notifications' =
                    commit(Notifications, update_done(Notifications, notif_id), outcome)
              /\ IF outcome # "ok"
                 THEN /\ Respond(r, "markDone", notif_id, HTTP_500, <<"db_error">>)
                      /\ UNCHANGED <<active_connections, ws, hung, bc, oplog, regRaised, track, inbox, mail>>
                 ELSE IF rowcount(Notifications, notif_id) = 0
                 THEN NotFound(r, "markDone", notif_id, <<"commit">>)
                 ELSE broadcast(r, "markDone", notif_id,
                                notification_done_event(notif_id),
                                HTTP_200_OK, <<"commit">>, <<>>)
    /\ scenario' = ScenarioAfterCall(scenario, "markDone", notif_id,
                                     call'[r].log # <<"db_error">>)

mark_all_as_read(r) ==
    /\ call[r].pc = "idle"
    /\ CallBudget
    /\ \E outcome \in DbOutcomes :
         IF outcome \in {"connect_error", "execute_error"}
         THEN StoreError(r, "markAllRead", NoId)
         ELSE /\ Notifications' =
                    commit(Notifications, update_read_all(Notifications), outcome)
              /\ IF outcome # "ok"
                 THEN /\ Respond(r, "markAllRead", NoId, HTTP_500, <<"db_error">>)
                      /\ UNCHANGED <<active_connections, ws, hung, bc, oplog, regRaised, track, inbox, mail>>
                 ELSE broadcast(r, "markAllRead", NoId,
                                notifications_read_all_event,
                                HTTP_200_OK, <<"commit">>, <<>>)
    /\ scenario' = ScenarioAfterCall(scenario, "markAllRead", NoId,
                                     call'[r].log # <<"db_error">>)

\* GET /notifications/: the rows that are not done, newest first; nothing is
\* committed and nothing is broadcast
get_notifications(r) ==
    /\ call[r].pc = "idle"
    /\ \E outcome \in DbOutcomes \ {"commit_error"} :
         IF outcome # "ok"
         THEN StoreError(r, "list", NoId)
         ELSE /\ RespondData(r, "list", NoId, HTTP_200_OK, <<>>, select_active(Notifications))
              /\ UNCHANGED <<active_connections, ws, hung, Notifications, bc, oplog, regRaised, track, inbox, mail>>
    /\ scenario' = ScenarioAfterCall(scenario, "list", NoId,
                                     call'[r].log # <<"db_error">>)

\* ------------------------------------------------------------------------
\* ConnectionManager.broadcast, from the completion of one send_json to the
\* next suspension or to the end of the call
\* ------------------------------------------------------------------------
SendComplete(r) ==
    /\ Running(r)
    /\ bc[r].cur \notin hung
    /\ \E ok \in BOOLEAN :
         /\ LET b1 == IF ok THEN [bc[r] EXCEPT !.sent = @ \cup {bc[r].cur}]
                            ELSE [bc[r] EXCEPT !.disconnected = @ \cup {bc[r].cur}]
            IN \E n \in setiter_next(active_connections, b1.it_used, b1.pending) :
                 \/ /\ n.kind = "yield"
                    /\ bc' = [bc EXCEPT ![r] = [b1 EXCEPT !.cur = n.item, !.pending = n.pending,
                                                          !.nsent = @ + 1]]
                    /\ UNCHANGED <<active_connections, call>>
                 \/ /\ n.kind = "StopIteration"
                    /\ active_connections' = prune(active_connections, b1.disconnected)
                    /\ bc' = [q \in Reqs |->
                                IF q = r
                                THEN [b1 EXCEPT !.state = "returned", !.cur = NoConn]
                                ELSE IterAfterDiscard(bc[q], b1.disconnected)]
                    /\ call' = [call EXCEPT ![r].pc = "done"]
                 \/ /\ n.kind = "RuntimeError"
                    /\ bc' = [bc EXCEPT ![r] = [b1 EXCEPT !.state = "raised", !.cur = NoConn,
                                                          !.pending = {}]]
                    /\ call' = [call EXCEPT ![r].pc = "done", ![r].status = HTTP_500,
                                            ![r].log = Append(@, "exception"),
                                            ![r].data = <<>>]
                    /\ UNCHANGED active_connections
         /\ inbox' = IF ok /\ track.on
                      THEN [inbox EXCEPT ![bc[r].cur] = send_json(@, bc[r].stamp)]
                      ELSE inbox
    /\ UNCHANGED <<ws, hung, Notifications, oplog, regRaised, scenario, track, mail>>

\* the transport of the connection a broadcast is sending to stops making
\* progress: this send_json, and any later one on it, never completes
Stall(r) ==
    /\ Running(r)
    /\ bc[r].cur \notin hung
    /\ Cardinality(hung) < MaxHung
    /\ hung' = hung \cup {bc[r].cur}
    /\ UNCHANGED <<active_connections, ws, Notifications, call, bc, oplog, regRaised, scenario, track, inbox, mail>>

\* the response has been delivered; the worker serves the next request
NextRequest(r) ==
    /\ call[r].pc = "done"
    /\ call' = [call EXCEPT ![r] = IdleCall]
    /\ bc' = [bc EXCEPT ![r] = IdleBc]
    /\ scenario' = ScenarioAfterResponse(scenario, call[r])
    /\ UNCHANGED <<active_connections, ws, hung, Notifications, oplog, regRaised, track, inbox, mail>>

\* ------------------------------------------------------------------------
\* The registry driven directly: any sequence of connect and disconnect
\* ------------------------------------------------------------------------
RegConnect(c) ==
    /\ Len(oplog) < MaxOps
    /\ active_connections' = connect(active_connections, c)
    /\ oplog' = Append(oplog, <<"connect", c>>)
    /\ UNCHANGED <<ws, hung, Notifications, call, bc, regRaised, scenario, track, inbox, mail>>

RegDisconnect(c) ==
    /\ Len(oplog) < MaxOps
    /\ LET d == disconnect(active_connections, c)
       IN /\ active_connections' = d.conns
          /\ regRaised' = (regRaised \/ d.raised)
    /\ oplog' = Append(oplog, <<"disconnect", c>>)
    /\ UNCHANGED <<ws, hung, Notifications, call, bc, scenario, track, inbox, mail>>

RegistryNext ==
    \/ \E c \in Conns : RegConnect(c)
    \/ \E c \in Conns : RegDisconnect(c)

RegistrySpec == Init /\ [][RegistryNext]_vars

Next ==
    \/ \E r \in Reqs, s \in SaleIDs, m \in Messages : create_notification(r, s, m)
    \/ \E r \in Reqs, i \in NotifIds : mark_as_read(r, i)
    \/ \E r \in Reqs, i \in NotifIds : mark_as_done(r, i)
    \/ \E r \in Reqs : mark_all_as_read(r)
    \/ \E r \in Reqs : get_notifications(r)
    \/ \E r \in Reqs : SendComplete(r)
    \/ \E r \in Reqs : NextRequest(r)
    \/ \E c \in Conns : Accept(c)
    \/ \E c \in Conns : AcceptFail(c)
    \/ \E c \in Conns : Receive(c)
    \/ \E c \in Conns : ReadLoopEnds(c)

Spec == Init /\ [][Next]_vars

\* The same program with the history of its broadcast calls recorded, up to
\* MaxCalls calls.
OrderSpec == OrderInit /\ [][Next]_vars

\* The same program with transports that may stall, and with the guarantee of
\* the event loop that a send_json whose transport makes progress completes.
HangNext == Next \/ \E r \in Reqs : Stall(r)

HangSpec == Init /\ [][HangNext]_vars /\ \A r \in Reqs : WF_vars(SendComplete(r))
\* ------------------------------------------------------------------------
\* routers/email_notifications.py: send_order_accepted_email and
\* send_order_update_email
\* ------------------------------------------------------------------------
otherVars ==
    <<active_connections, ws, hung, Notifications, call, bc, oplog, regRaised, scenario,
      track, inbox>>

\* the handler returns success=False: no address for the customer
NoAddress(m) ==
    [m EXCEPT !.pc = "done", !.status = HTTP_200_OK, !.success = "false"]

\* the handler from its entry to its first await: 401 without a header that
\* starts with "Bearer ", else the address of the request or a lookup
send_order_email(endpoint, authorization, customer_email, customer_id, customer_name) ==
    /\ mail.pc = "idle"
    /\ LET m == [IdleMail EXCEPT !.endpoint = endpoint, !.authorization = authorization,
                                 !.customer_email = customer_email,
                                 !.customer_id = customer_id,
                                 !.customer_name = customer_name]
       IN IF not_header(authorization) \/ ~startswith(authorization.v, "Bearer ")
          THEN mail' = [m EXCEPT !.pc = "done", !.status = HTTP_401_UNAUTHORIZED]
          ELSE LET auth_token == replace(authorization.v, "Bearer ")
                   plan == fetch_user_email(customer_id, customer_name, auth_token)
               IN IF ~not_str(customer_email)
                  THEN mail' = [m EXCEPT !.pc = "send", !.user_email = customer_email]
                  ELSE IF plan.lookup
                  THEN mail' = [m EXCEPT !.pc = "lookup", !.lookups = <<plan>>]
                  ELSE mail' = NoAddress(m)
    /\ UNCHANGED otherVars

\* the auth service answers (or the request times out or fails):
\* fetch_user_email returns the "email" of a 200 answer, else None
AuthServiceResponds ==
    /\ mail.pc = "lookup"
    /\ \E response \in AuthResponses :
         LET email == IF response.kind = "200" THEN response.email ELSE None
             m == [mail EXCEPT !.user_email = email, !.lookups[1].email = email]
         IN IF not_str(email)
            THEN mail' = NoAddress(m)
            ELSE mail' = [m EXCEPT !.pc = "send"]
    /\ UNCHANGED otherVars

\* send_email and the rest of the handler: the message reaches
\* server.send_message only with credentials and after a successful login;
\* every failure makes send_email return False and the handler answer 500
send_email ==
    /\ mail.pc = "send"
    /\ \E outcome \in SmtpOutcomes :
         LET msg == [to |-> mail.user_email.v, endpoint |-> mail.endpoint]
             m == IF outcome \in {"send_failed", "sent"}
                  THEN [mail EXCEPT !.handed = Append(@, msg)]
                  ELSE mail
         IN IF outcome = "sent"
            THEN mail' = [m EXCEPT !.pc = "done", !.status = HTTP_200_OK,
                                   !.success = "true", !.send = "ok"]
            ELSE mail' = [m EXCEPT !.pc = "done", !.status = HTTP_500,
                                   !.send = "failed"]
    /\ UNCHANGED otherVars

\* the response is delivered, the next request may come
MailNextRequest ==
    /\ mail.pc = "done"
    /\ mail' = IdleMail
    /\ UNCHANGED otherVars

EmailNext ==
    \/ \E e \in Endpoints, a \in AuthorizationHeaders, ce \in CustomerEmails,
          ci \in CustomerIds, cn \in CustomerNames : send_order_email(e, a, ce, ci, cn)
    \/ AuthServiceResponds
    \/ send_email
    \/ MailNextRequest

EmailSpec == Init /\ [][EmailNext]_vars

\* ------------------------------------------------------------------------
\* Properties
\* ------------------------------------------------------------------------

\* the step in which the broadcast call of request r ends
CallEnds(r) == bc[r].state = "sending" /\ bc'[r].state \in {"returned", "raised"}

\* the step in which request r is served by a producer
Called(r) == call[r].pc = "idle" /\ call'[r].pc # "idle"

Range(f) == {f[i] : i \in DOMAIN f}

Open == {c \in Conns : ws[c] = "OPEN"}

\* C1: when a broadcast call ends, every connection that was a member of
\* active_connections when the iteration began has been sent the event or has
\* been removed from active_connections after its send failed.
C1_SnapshotServedOrRemoved ==
    [][\A r \in Reqs : CallEnds(r) =>
         \A c \in bc'[r].start :
            \/ c \in bc'[r].sent
            \/ c \in bc'[r].disconnected /\ c \notin active_connections']_vars

\* C2: a broadcast call never ends by raising to its caller.
C2_BroadcastNeverRaises == \A r \in Reqs : bc[r].state # "raised"

\* C3: a connection whose send failed during a broadcast call is not a member
\* of the registry when that call ends.
C3_FailedNotMemberAtEnd ==
    [][\A r \in Reqs : CallEnds(r) =>
         \A c \in bc'[r].disconnected : c \notin active_connections']_vars

\* C4: a broadcast in which some sends fail and others succeed returns
\* normally, the connections whose send succeeded are members when it returns
\* (unless their own read loop has ended meanwhile) and the connections whose
\* send failed have been removed.
C4_FailureIsolated ==
    [][\A r \in Reqs :
         (CallEnds(r) /\ bc'[r].sent # {} /\ bc'[r].disconnected # {}) =>
            /\ bc'[r].state = "returned"
            /\ \A c \in bc'[r].sent \ bc'[r].disconnected :
                  c \in active_connections' \/ ws'[c] = "CLOSED"
            /\ \A c \in bc'[r].disconnected : c \notin active_connections']_vars

\* C5: while a broadcast is suspended in a send that never completes, every
\* other connection of its start snapshot is eventually sent the event (or
\* its send is attempted and fails, or it leaves the registry).
C5_HangDoesNotBlockOthers ==
    \A r \in Reqs, c \in Conns :
       (Running(r) /\ bc[r].cur \in hung /\ c \in bc[r].start /\ c \notin hung)
          ~> (c \in bc[r].sent \cup bc[r].disconnected \/ c \notin active_connections)

\* C6: a producer whose store mutation has committed reports success, whatever
\* happens to the deliveries of the broadcast that follows.
C6_CommittedReportsSuccess ==
    \A r \in Reqs :
       (call[r].pc = "done" /\ "commit" \in Range(call[r].log)
                            /\ "not_found" \notin Range(call[r].log))
          => call[r].status \in {HTTP_200_OK, HTTP_201_CREATED}

\* C7: a producer calls broadcast only after its store mutation has
\* committed; when a store operation fails the caller gets a 500, broadcast
\* is not called and the table is unchanged.
C7_BroadcastOnlyAfterCommit ==
    [][\A r \in Reqs :
         /\ (Called(r) /\ "db_error" \in Range(call'[r].log)) =>
               /\ call'[r].pc = "done"
               /\ call'[r].status = HTTP_500
               /\ "broadcast" \notin Range(call'[r].log)
               /\ bc'[r].state = "none"
               /\ Notifications' = Notifications
         /\ (Called(r) /\ bc'[r].state # "none") =>
               /\ call'[r].log = <<"commit", "broadcast">>
               /\ \/ call'[r].op = "create" /\ Len(Notifications') = Len(Notifications) + 1
                  \/ call'[r].op = "markRead" /\ Notifications'[call'[r].id].IsRead
                  \/ call'[r].op = "markDone" /\ Notifications'[call'[r].id].IsDone
                  \/ call'[r].op = "markAllRead"
                       /\ \A i \in DOMAIN Notifications' : Notifications'[i].IsRead]_vars

\* a store operation failed on a call that would have changed the table
C7_Witness ==
    \E r \in Reqs :
       /\ call[r].pc = "done" /\ call[r].log = <<"db_error">>
       /\ call[r].op = "markDone"
       /\ call[r].id \in DOMAIN Notifications
       /\ ~Notifications[call[r].id].IsDone

\* C8 as stated: markRead and markDone on an id without a record answer 404,
\* broadcast nothing and leave the table unchanged.
C8_MissingIdIs404 ==
    [][\A r \in Reqs :
         (Called(r) /\ call'[r].op \in {"markRead", "markDone"}
                    /\ call'[r].id \notin DOMAIN Notifications) =>
            /\ call'[r].pc = "done"
            /\ call'[r].status = HTTP_404
            /\ bc'[r].state = "none"
            /\ "broadcast" \notin Range(call'[r].log)
            /\ Notifications' = Notifications]_vars

\* C8 amended: markRead and markDone on an id without a record answer 404
\* unless a store operation of the call fails, which answers 500; in both
\* cases nothing is broadcast and the table is unchanged.
C8_MissingIdIs404UnlessStoreFails ==
    [][\A r \in Reqs :
         (Called(r) /\ call'[r].op \in {"markRead", "markDone"}
                    /\ call'[r].id \notin DOMAIN Notifications) =>
            /\ call'[r].pc = "done"
            /\ IF "db_error" \in Range(call'[r].log)
               THEN call'[r].status = HTTP_500
               ELSE call'[r].status = HTTP_404
            /\ bc'[r].state = "none"
            /\ "broadcast" \notin Range(call'[r].log)
            /\ Notifications' = Notifications]_vars

\* markDone answered 404 while connections were registered
C8_Witness ==
    \E r \in Reqs :
       /\ call[r].pc = "done" /\ call[r].status = HTTP_404
       /\ call[r].op = "markDone"
       /\ active_connections # {}

\* C9 as stated: the registry's members are exactly the open connections
\* (handshake completed, read loop not ended), and /health reports their
\* number.
C9_RegistryIsOpenSet ==
    /\ active_connections = Open
    /\ websocket_clients = Cardinality(Open)

\* C9 amended: every registry member is an open connection, so /health never
\* reports more than the number of open connections; an accepted connection
\* is registered at once, and an open connection leaves the registry only
\* when a broadcast removes it after a failed send.
C9_RegistryWithinOpenSet ==
    /\ [](active_connections \subseteq Open /\ websocket_clients <= Cardinality(Open))
    /\ [][\A c \in Conns :
            /\ (ws[c] = "CONNECTING" /\ ws'[c] = "OPEN") => c \in active_connections'
            /\ (c \in active_connections /\ c \notin active_connections' /\ ws'[c] = "OPEN")
                  => \E r \in Reqs : CallEnds(r) /\ bc'[r].state = "returned"
                                                 /\ c \in bc'[r].disconnected]_vars

\* a connection is open but was removed by a broadcast
C9_Witness ==
    \E c \in Conns, r \in Reqs :
       /\ ws[c] = "OPEN" /\ c \notin active_connections
       /\ bc[r].state = "returned" /\ c \in bc[r].disconnected

\* the connections whose latest registry operation is a connect
AddedNotRemoved ==
    {c \in Conns :
       \E i \in DOMAIN oplog :
          /\ oplog[i] = <<"connect", c>>
          /\ \A j \in DOMAIN oplog : j > i => oplog[j][2] # c}

\* C10: after any sequence of connect and disconnect the registry holds the
\* connections added and not removed since, each once, and no disconnect has
\* raised, also not on a connection that is no member.
C10_RegistryIsAddsMinusRemoves ==
    /\ active_connections = AddedNotRemoved
    /\ websocket_clients = Cardinality(AddedNotRemoved)
    /\ ~regRaised

\* a member was connected twice and a non-member was disconnected
C10_Witness ==
    \E c, d \in Conns :
       /\ c # d
       /\ Len(oplog) = 4
       /\ oplog[1] = <<"disconnect", d>>
       /\ oplog[2] = <<"connect", c>>
       /\ oplog[3] = <<"connect", c>>
       /\ oplog[4] = <<"disconnect", d>>

\* the step in which a broadcast call begins a send_json to connection c
SendBegins(r, c) ==
    /\ bc'[r].state = "sending"
    /\ bc'[r].cur = c
    /\ bc'[r].nsent # bc[r].nsent

\* C11: when the read loop of an open connection ends, by WebSocketDisconnect
\* or by another exception of the read, the connection is deregistered: a
\* connection whose handler has finished is no registry member and is not
\* counted by /health.
C11_ClosedIsDeregistered ==
    /\ \A c \in Conns : ws[c] = "CLOSED" => c \notin active_connections
    /\ websocket_clients <= Cardinality({c \in Conns : ws[c] # "CLOSED"})

\* the read loop of a registered connection has ended while another stays
C11_Witness ==
    \E c, d \in Conns :
       /\ ws[c] = "CLOSED" /\ ws[d] = "OPEN"
       /\ active_connections = {d}

\* C12: a connection becomes a registry member exactly in the step in which
\* its handshake is accepted, which grows the registry by one; a connection
\* whose handshake failed, or is still pending, is no member.
C12_MemberExactlyOnAccept ==
    /\ [](\A c \in Conns : ws[c] \in {"CONNECTING", "FAILED"} => c \notin active_connections)
    /\ [][\A c \in Conns :
            /\ (ws[c] = "CONNECTING" /\ ws'[c] = "OPEN") =>
                  /\ c \in active_connections'
                  /\ Cardinality(active_connections') = Cardinality(active_connections) + 1
            /\ (c \notin active_connections /\ c \in active_connections') =>
                  (ws[c] = "CONNECTING" /\ ws'[c] = "OPEN")]_vars

\* one handshake failed and one was accepted
C12_Witness ==
    \E c, d \in Conns :
       /\ ws[c] = "FAILED" /\ ws[d] = "OPEN"
       /\ active_connections = {d}

\* a connection that was registered and has been removed
Removed(c) == ws[c] \in {"OPEN", "CLOSED"} /\ c \notin active_connections

\* C13: a connection removed from the registry, after a failed send or at the
\* end of its handler, never becomes a member again, and no send to it is
\* begun afterwards.
C13_ClosedIsTerminal ==
    [][\A c \in Conns : Removed(c) =>
          /\ c \notin active_connections'
          /\ \A r \in Reqs : ~SendBegins(r, c)]_vars

\* a broadcast that began after the removal of c is sending to the others
C13_Witness ==
    \E c \in Conns, r \in Reqs :
       /\ ws[c] = "CLOSED"
       /\ Running(r) /\ c \notin bc[r].start /\ bc[r].nsent = 2

\* C14: within one broadcast call a send is attempted at most once on each
\* connection.
C14_AtMostOncePerCall ==
    \A r \in Reqs :
       bc[r].nsent = Cardinality(bc[r].sent \cup bc[r].disconnected)
                       + (IF Running(r) THEN 1 ELSE 0)

\* C16: broadcast on an empty registry returns normally, attempts no send
\* and leaves the registry empty.
C16_EmptyRegistryNoOp ==
    [][\A r \in Reqs :
         (Called(r) /\ "broadcast" \in Range(call'[r].log) /\ active_connections = {}) =>
            /\ bc'[r].state = "returned"
            /\ bc'[r].nsent = 0 /\ bc'[r].sent = {} /\ bc'[r].disconnected = {}
            /\ active_connections' = {}
            /\ call'[r].pc = "done"
            /\ call'[r].status \in {HTTP_200_OK, HTTP_201_CREATED}]_vars

\* a broadcast returned on an empty registry after connections had come and gone
C16_Witness ==
    \E r \in Reqs, c \in Conns :
       /\ bc[r].state = "returned" /\ bc[r].start = {} /\ call[r].pc = "done"
       /\ active_connections = {} /\ ws[c] = "CLOSED"

\* the number of times a handler has called manager.broadcast
BroadcastCalls(lg) == Cardinality({i \in DOMAIN lg : lg[i] = "broadcast"})

\* what markDone(id) on an existing id does when the store works
MarkDoneEffect(r) ==
    LET id == call'[r].id IN
    /\ DOMAIN Notifications' = DOMAIN Notifications
    /\ Notifications'[id] = [Notifications[id] EXCEPT !.IsDone = TRUE, !.IsRead = TRUE]
    /\ \A i \in DOMAIN Notifications \ {id} : Notifications'[i] = Notifications[i]
    /\ BroadcastCalls(call'[r].log) = 1
    /\ bc'[r].state # "none"
    /\ bc'[r].message = [type |-> "notification_done", payload |-> [NotificationID |-> id]]

\* C17 as stated: markDone(id) on an existing id sets IsDone and IsRead of
\* that record, changes no other record and broadcasts exactly one
\* notification_done event with payload {NotificationID: id}.
C17_MarkDoneSetsBoth ==
    [][\A r \in Reqs :
         (Called(r) /\ call'[r].op = "markDone"
                    /\ call'[r].id \in DOMAIN Notifications) => MarkDoneEffect(r)]_vars

\* C17 amended: markDone(id) on an existing id does so unless a store
\* operation of the call fails; then it answers 500, broadcasts nothing and
\* leaves the table unchanged.
C17_MarkDoneSetsBothUnlessStoreFails ==
    [][\A r \in Reqs :
         (Called(r) /\ call'[r].op = "markDone"
                    /\ call'[r].id \in DOMAIN Notifications) =>
            IF "db_error" \in Range(call'[r].log)
            THEN /\ call'[r].pc = "done" /\ call'[r].status = HTTP_500
                 /\ bc'[r].state = "none"
                 /\ BroadcastCalls(call'[r].log) = 0
                 /\ Notifications' = Notifications
            ELSE MarkDoneEffect(r)]_vars

\* markDone succeeded on one of two records, was sent to a connection, and
\* the other record is still not done
C17_Witness ==
    \E r \in Reqs :
       /\ call[r].op = "markDone" /\ call[r].pc = "done" /\ call[r].status = HTTP_200_OK
       /\ bc[r].state = "returned" /\ bc[r].sent # {}
       /\ Len(Notifications) = 2
       /\ Notifications[call[r].id].IsDone /\ Notifications[call[r].id].IsRead
       /\ \E i \in DOMAIN Notifications : i # call[r].id /\ ~Notifications[i].IsDone

\* the event a producer of kind op broadcasts for request r
EventOfKind(r) ==
    CASE call[r].op = "create" ->
           [type |-> "new_notification", payload |-> call[r].data[1]]
      [] call[r].op = "markRead" ->
           [type |-> "notification_read", payload |-> [NotificationID |-> call[r].id]]
      [] call[r].op = "markDone" ->
           [type |-> "notification_done", payload |-> [NotificationID |-> call[r].id]]
      [] call[r].op = "markAllRead" ->
           [type |-> "notifications_read_all"]

\* C19: a producer call that reports success has called broadcast exactly
\* once with the event of its kind (create: new_notification with the record
\* it returns, markRead: notification_read with the id, markDone:
\* notification_done with the id, markAllRead: notifications_read_all and no
\* payload key), whether or not a stored value changed; list never broadcasts.
C19_SuccessBroadcastsOnceOwnKind ==
    \A r \in Reqs :
       /\ call[r].op = "list" =>
             /\ bc[r].state = "none"
             /\ BroadcastCalls(call[r].log) = 0
       /\ (/\ call[r].pc = "done"
           /\ call[r].status \in {HTTP_200_OK, HTTP_201_CREATED}
           /\ call[r].op # "list") =>
             /\ BroadcastCalls(call[r].log) = 1
             /\ bc[r].state = "returned"
             /\ bc[r].message = EventOfKind(r)
             /\ call[r].op = "create" =>
                   /\ Len(call[r].data) = 1
                   /\ call[r].data[1].NotificationID = call[r].id
                   /\ call[r].id \in DOMAIN Notifications
                   /\ Notifications[call[r].id].SaleID = call[r].data[1].SaleID
                   /\ Notifications[call[r].id].Message = call[r].data[1].Message

\* markAllRead reported success on an empty table, where it changes nothing,
\* and its event was sent to a connection
C19_Witness ==
    \E r \in Reqs :
       /\ call[r].op = "markAllRead" /\ call[r].pc = "done"
       /\ call[r].status = HTTP_200_OK
       /\ Notifications = <<>>
       /\ bc[r].state = "returned" /\ bc[r].sent # {}

\* C20: in every store state a done record is read, and no step turns
\* IsRead or IsDone from true to false, deletes a record or renumbers one.
C20_FlagsMonotoneNoDelete ==
    /\ [](\A i \in DOMAIN Notifications :
             Notifications[i].IsDone => Notifications[i].IsRead)
    /\ [][/\ Len(Notifications') >= Len(Notifications)
          /\ \A i \in DOMAIN Notifications :
                /\ Notifications'[i].NotificationID = Notifications[i].NotificationID
                /\ Notifications[i].IsRead => Notifications'[i].IsRead
                /\ Notifications[i].IsDone => Notifications'[i].IsDone]_vars

\* one record is done and read, another is read and not done
C20_Witness ==
    /\ Len(Notifications) = 2
    /\ \E i, j \in DOMAIN Notifications :
          /\ Notifications[i].IsDone /\ Notifications[i].IsRead
          /\ Notifications[j].IsRead /\ ~Notifications[j].IsDone

\* rows is what list() may return after the record id was created and all
\* records were marked read: only records that are not done, newest first,
\* the record id among them, read and not done
ListAfterReadAll(rows, id) ==
    /\ \A i \in DOMAIN rows : rows[i].IsDone = FALSE
    /\ \A i, j \in DOMAIN rows : i < j => rows[i].CreatedAt >= rows[j].CreatedAt
    /\ \E i \in DOMAIN rows :
          /\ rows[i].NotificationID = id
          /\ rows[i].IsRead = TRUE /\ rows[i].IsDone = FALSE

\* the response of a create that reported success reaches the client: it
\* returns a record that is neither read nor done and has broadcast one
\* new_notification event carrying that record
CreateSucceeded(r) ==
    (/\ call[r].pc = "done" /\ call'[r].pc = "idle"
     /\ call[r].op = "create"
     /\ scenario.stage = "creating" /\ scenario.id = call[r].id
     /\ scenario'.stage = "created") =>
       /\ Len(call[r].data) = 1
       /\ call[r].data[1].IsRead = FALSE /\ call[r].data[1].IsDone = FALSE
       /\ BroadcastCalls(call[r].log) = 1
       /\ bc[r].message = [type |-> "new_notification", payload |-> call[r].data[1]]

ReadAllBroadcasts(r) ==
    /\ BroadcastCalls(call'[r].log) = 1
    /\ bc'[r].state # "none"
    /\ bc'[r].message = [type |-> "notifications_read_all"]

\* C18 as stated: create succeeds, returns a record with both flags false
\* and broadcasts one new_notification event with that record; the
\* markAllRead that follows broadcasts one notifications_read_all event
\* without a payload key; the list after that returns only records that are
\* not done, newest first, among them the created record, read and not done.
C18_CreateReadAllList ==
    [][\A r \in Reqs :
         /\ CreateSucceeded(r)
         /\ (Called(r) /\ call'[r].op = "markAllRead" /\ scenario.stage = "created") =>
               ReadAllBroadcasts(r)
         /\ (Called(r) /\ call'[r].op = "list" /\ scenario.stage = "readAll") =>
               /\ call'[r].status = HTTP_200_OK
               /\ ListAfterReadAll(call'[r].data, scenario.id)]_vars

\* C18 amended: the same, for a markAllRead and a list whose store
\* operations succeed; a markAllRead or a list whose store operation fails
\* answers 500, broadcasts nothing and changes no record.
C18_CreateReadAllListUnlessStoreFails ==
    [][\A r \in Reqs :
         /\ CreateSucceeded(r)
         /\ (Called(r) /\ call'[r].op = "markAllRead" /\ scenario.stage = "created") =>
               IF "db_error" \in Range(call'[r].log)
               THEN /\ call'[r].status = HTTP_500
                    /\ bc'[r].state = "none" /\ BroadcastCalls(call'[r].log) = 0
                    /\ Notifications' = Notifications
               ELSE ReadAllBroadcasts(r)
         /\ (Called(r) /\ call'[r].op = "list" /\ scenario.stage = "readAll"
                       /\ scenario.ok) =>
               IF "db_error" \in Range(call'[r].log)
               THEN /\ call'[r].status = HTTP_500 /\ call'[r].data = <<>>
                    /\ bc'[r].state = "none" /\ Notifications' = Notifications
               ELSE /\ call'[r].status = HTTP_200_OK
                    /\ ListAfterReadAll(call'[r].data, scenario.id)]_vars

\* the sequence ran to its end with working store operations while an older
\* record was done: the list returned the created record only
C18_Witness ==
    \E r \in Reqs :
       /\ scenario.stage = "listed" /\ scenario.ok
       /\ call[r].op = "list" /\ call[r].status = HTTP_200_OK
       /\ Len(call[r].data) = 1
       /\ call[r].data[1].NotificationID = scenario.id
       /\ \E i \in DOMAIN Notifications : Notifications[i].IsDone

\* the events in a stream appear in the order in which their broadcast calls
\* were issued
InIssueOrder(stream) ==
    \A i, j \in DOMAIN stream : i < j => stream[i] <= stream[j]

\* C15: when no broadcast call was issued while another one was still
\* sending, every connection is sent its events in the order in which the
\* broadcast calls were issued.
C15_DeliveredInIssueOrder ==
    ~track.overlapped => \A c \in Conns : InIssueOrder(inbox[c])

\* one connection was sent the events of two successive broadcast calls,
\* another one the event of the second call only
C15_Witness ==
    /\ ~track.overlapped /\ track.issued = 2
    /\ \E c, d \in Conns : inbox[c] = <<1, 2>> /\ inbox[d] = <<2>>

\* the Authorization header of the request starts with "Bearer "
BearerHeader ==
    /\ mail.authorization.some
    /\ mail.authorization.v # <<>>
    /\ Head(mail.authorization.v) = "Bearer "

\* What the e-mail endpoints owe, given whether the request counts as
\* carrying an address (hasEmail) and an id (hasId):
\*  - a message is handed to SMTP only with a Bearer header, once, and to the
\*    address of the request, or else to the address that the one lookup
\*    returned, made by id when the request has one and by name otherwise;
\*  - without a Bearer header: 401, no lookup, nothing handed to SMTP;
\*  - with a Bearer header and no address: success=false, nothing handed;
\*  - a send that failed: 500.
EmailContract(hasEmail, hasId) ==
    /\ mail.handed # <<>> =>
          /\ BearerHeader
          /\ Len(mail.handed) = 1
          /\ mail.handed[1].endpoint = mail.endpoint
          /\ ~not_str(mail.user_email) /\ mail.handed[1].to = mail.user_email.v
          /\ IF hasEmail
             THEN mail.user_email = mail.customer_email /\ mail.lookups = <<>>
             ELSE /\ Len(mail.lookups) = 1
                  /\ mail.lookups[1].email = mail.user_email
                  /\ IF hasId
                     THEN /\ mail.lookups[1].by = "user_id"
                          /\ mail.lookups[1].user_id = mail.customer_id.v
                     ELSE /\ mail.lookups[1].by = "username"
                          /\ mail.lookups[1].username = mail.customer_name
    /\ (mail.pc # "idle" /\ ~BearerHeader) =>
          /\ mail.pc = "done" /\ mail.status = HTTP_401_UNAUTHORIZED
          /\ mail.lookups = <<>> /\ mail.handed = <<>>
    /\ (mail.pc = "done" /\ BearerHeader /\ not_str(mail.user_email)) =>
          /\ mail.status = HTTP_200_OK /\ mail.success = "false"
          /\ mail.handed = <<>>
    /\ (mail.pc = "done" /\ mail.send = "failed") =>
          /\ mail.status = HTTP_500 /\ mail.success = "none"
    /\ Len(mail.lookups) <= 1

\* C21 as stated: a message is handed to SMTP only with a header that starts
\* with "Bearer " and a resolved address, which is customer_email if the
\* request has one, otherwise the result of one lookup, by customer_id when
\* the request has one, else by customer_name; no such header: 401, no
\* lookup, no send; no address: success=false, no send; failed send: 500.
C21_SendOnlyAuthorizedResolved ==
    EmailContract(mail.customer_email.some, mail.customer_id.some)

\* C21 amended: the same, where an empty customer_email counts as absent and
\* a customer_id of 0 counts as not given.
C21_SendOnlyAuthorizedResolvedNonEmpty ==
    EmailContract(~not_str(mail.customer_email), ~not_int(mail.customer_id))

\* a message went to SMTP for the address a lookup by id returned
C21_Witness ==
    /\ mail.pc = "done" /\ mail.success = "true"
    /\ Len(mail.handed) = 1 /\ Len(mail.lookups) = 1
    /\ mail.lookups[1].by = "user_id"
    /\ mail.handed[1].to = "ann@auth.example.com"
====
